---- MODULE Spec2Model ----
(***************************************************************************)
(* keyserver-go: the key rotation loop of src/main.go (lines 1-419) and    *)
(* the template keychain.tmpl.  One KeyServer polls a fleet of routers,    *)
(* decides whether a rotation is due, generates a ring of keys, renders    *)
(* it into set-statements and commits them on every router, rolling back   *)
(* the routers already committed when a later one fails.                   *)
(*                                                                         *)
(* Routers are numbered 1..n in the order of Config.Devices.  A router's   *)
(* answers (session refused, command error, reply fields, commit result)   *)
(* are inputs chosen by the environment.                                   *)
(***************************************************************************)
EXTENDS Integers, Sequences, FiniteSets, TLC

\* ---------------------------------------------------------------- bounds
MaxDevices == 3          \* largest configured fleet
MaxCycles == 2           \* cycles of Run that are explored

\* ------------------------------------------------------ program constants
RunError == 0            \* gauge values in tenths: 0.0
RunWarning == 5          \* 0.5
RunSuccess == 10         \* 1.0
RingLen == 31            \* iterations of the loop of Generate
SleepHours == 24         \* time.Sleep(time.Hour * 24)

Benign == "expected element type <commit-results> but have <ok>"
None == "None"
Keychain == "kc"

\* Active key ids a router may report, as the text of the XML element.
\* "x1" stands for any text strconv.Atoi rejects.
SlotTexts == {"5", "31", "x1"}
NextTexts == {None, "7"}
Intervals == {1}
\* Iterations of Generate at which a read of the random source may fail.
GenFailIters == {1}

VARIABLES
    Config,          \* Config: [Interval, NTP, Devices]
    UsedKey,         \* KeyServer.UsedKey
    Template,        \* KeyServer.Template: [CAK, CKN, ROLL]
    lastResult,      \* the gauge keyserver_result
    pc,              \* position of Run/loop
    cycle,           \* number of the cycle in progress (1..)
    now,             \* time.Now() in hours since the process started
    ActiveIDs,       \* getKeychainStatus: ActiveIDs
    readyForKeys,    \* getKeychainStatus: readyForKeys
    idx,             \* position of the range loop in progress (1-based)
    needsKey,        \* loop: needsKey
    usedKey,         \* loop: usedKey
    err,             \* loop: the error returned by the last call ("" = nil)
    configCommands,  \* loop: configCommands
    committed,       \* updateKeychain: committed
    routers,         \* rollbackCommitted: routers
    applyErr,        \* updateKeychain: err of the failed jnpr.Config
    sessions,        \* routers with an open session
    hist             \* history of the cycle in progress (not program state)

vars == <<Config, UsedKey, Template, lastResult, pc, cycle, now, ActiveIDs,
          readyForKeys, idx, needsKey, usedKey, err, configCommands, committed,
          routers, applyErr, sessions, hist>>

NoErr == ""
NumDevices == Len(Config.Devices)

\* The record of one cycle: what was done to which router, in program order.
NoHist == [ops |-> <<>>,          \* <<pass, router>> per call made on a router
           last |-> "",           \* what the last of these calls returned
           polled |-> <<>>,       \* the replies of the routers polled
           contacted |-> <<>>,    \* routers the poll called NewSession for
           uptime |-> 0,          \* "show system uptime" commands of the poll
           gaugeSets |-> 0,       \* calls of lastResult.Set
           generated |-> FALSE,   \* Generate was called
           ring |-> <<>>,         \* Template when the cycle began
           statusErr |-> NoErr,   \* what getKeychainStatus returned
           statusNeeds |-> FALSE,
           statusIDs |-> <<>>,
           statusDone |-> FALSE,
           probeFail |-> 0,       \* router whose probe failed
           applyFail |-> 0,       \* router whose apply failed
           rollbackCalled |-> FALSE,
           rollbackArg |-> <<>>,  \* routers passed to rollbackCommitted
           rollErr |-> NoErr,     \* what rollbackCommitted returned
           dev |-> <<>>]          \* per router: the configuration it runs (cur)
                                  \* and its rollback 1 (prev), as "start" (what
                                  \* it ran when the cycle began), "new" (that
                                  \* with the batch of this cycle committed) or
                                  \* "before" (what it ran before "start")

\* ------------------------------------------------------------ NewKeyServer
NewTemplate == [CAK |-> <<>>, CKN |-> <<>>, ROLL |-> <<>>]

Init ==
    /\ Config \in {[Interval |-> iv, NTP |-> ntp, Devices |-> [i \in 1..n |-> i]] :
                      iv \in Intervals, ntp \in BOOLEAN, n \in 0..MaxDevices}
    /\ UsedKey = 0
    /\ Template = NewTemplate
    /\ lastResult = 0
    /\ pc = "run"
    /\ cycle = 0
    /\ now = 0
    /\ ActiveIDs = <<>>
    /\ readyForKeys = <<>>
    /\ idx = 1
    /\ needsKey = FALSE
    /\ usedKey = <<>>
    /\ err = NoErr
    /\ configCommands = <<>>
    /\ committed = <<>>
    /\ routers = <<>>
    /\ applyErr = NoErr
    /\ sessions = {}
    /\ hist = NoHist

\* lastResult.Set(v)
GaugeSet(v) ==
    /\ lastResult' = v
    /\ hist' = [hist EXCEPT !.gaugeSets = @ + 1]

\* ---------------------------------------------------------------- Run/loop
BeginLoopKeepingCommands ==
    /\ pc = "run"
    /\ cycle < MaxCycles
    /\ cycle' = cycle + 1
    /\ pc' = "poll"
    /\ idx' = 1
    /\ ActiveIDs' = <<>>
    /\ readyForKeys' = <<>>
    /\ needsKey' = FALSE
    /\ usedKey' = <<>>
    /\ err' = NoErr
    /\ committed' = <<>>
    /\ routers' = <<>>
    /\ applyErr' = NoErr
    /\ hist' = [NoHist EXCEPT !.ring = Template,
                              !.dev = [d \in 1..NumDevices |->
                                          [cur |-> "start", prev |-> "before"]]]
    /\ UNCHANGED <<Config, UsedKey, Template, lastResult, now, sessions,
                   configCommands>>

\* Run: the next call of loop; its locals (lines 102-103 among them) start
\* empty.
BeginLoop ==
    /\ pc = "run"
    /\ cycle < MaxCycles
    /\ cycle' = cycle + 1
    /\ pc' = "poll"
    /\ idx' = 1
    /\ ActiveIDs' = <<>>
    /\ readyForKeys' = <<>>
    /\ needsKey' = FALSE
    /\ usedKey' = <<>>
    /\ err' = NoErr
    /\ configCommands' = <<>>
    /\ committed' = <<>>
    /\ routers' = <<>>
    /\ applyErr' = NoErr
    /\ hist' = [NoHist EXCEPT !.ring = Template,
                              !.dev = [d \in 1..NumDevices |->
                                          [cur |-> "start", prev |-> "before"]]]
    /\ UNCHANGED <<Config, UsedKey, Template, lastResult, now, sessions>>

\* ------------------------------------------------------- getKeychainStatus
\* strconv.Atoi on the texts a router may report.
Atoi(text) ==
    CASE text = "5" -> [ok |-> TRUE, val |-> 5]
      [] text = "31" -> [ok |-> TRUE, val |-> 31]
      [] OTHER -> [ok |-> FALSE, val |-> 0]

\* What one router answers to the two show commands.
GoodReplies ==
    [ntp : {TRUE}, cmd : {"ok"}, chain : {TRUE}, fields : {TRUE},
     ask : SlotTexts, ark : SlotTexts,
     nsk : NextTexts, nrk : NextTexts, nkt : NextTexts]
BaseReply ==
    [ntp |-> TRUE, cmd |-> "ok", chain |-> TRUE, fields |-> TRUE,
     ask |-> "5", ark |-> "5", nsk |-> None, nrk |-> None, nkt |-> None]
Replies ==
    GoodReplies \cup
    {[BaseReply EXCEPT !.ntp = FALSE], [BaseReply EXCEPT !.cmd = "cmderr"],
     [BaseReply EXCEPT !.cmd = "parseerr"], [BaseReply EXCEPT !.chain = FALSE],
     [BaseReply EXCEPT !.fields = FALSE]}

checkIfSameButLast(ids) ==
    IF Len(ids) <= 1 THEN TRUE
    ELSE \A i \in 1..(Len(ids) - 1) : ids[i] = ids[1]

checkIfSame(ids) ==
    IF Len(ids) <= 1 THEN TRUE
    ELSE \A i \in 1..Len(ids) : ids[i] = ids[1]

\* Lines 243-244: checkNTP, and with it "show system uptime", is called when
\* config.NTP is set.
UptimeQueries(n) == IF Config.NTP THEN n + 1 ELSE n

RouterErrorWithNTP(reply) ==
    IF ~reply.ntp THEN "ntp"
    ELSE IF reply.cmd = "cmderr" THEN "command"
    ELSE IF reply.cmd = "parseerr" THEN "parse"
    ELSE IF ~reply.chain THEN "nochain"
    ELSE IF ~reply.fields THEN "missing"
    ELSE IF reply.ask # reply.ark THEN "differ"
    ELSE IF ~Atoi(reply.ask).ok THEN "atoi"
    ELSE NoErr

\* The closure run on one router's session: the error it leaves in err.
RouterError(reply) ==
    IF Config.NTP /\ ~reply.ntp THEN "ntp"
    ELSE IF reply.cmd = "cmderr" THEN "command"
    ELSE IF reply.cmd = "parseerr" THEN "parse"
    ELSE IF ~reply.chain THEN "nochain"
    ELSE IF ~reply.fields THEN "missing"
    ELSE IF reply.ask # reply.ark THEN "differ"
    ELSE IF ~Atoi(reply.ask).ok THEN "atoi"
    ELSE NoErr

RouterReadyAny(reply) ==
    reply.nsk = None \/ reply.nrk = None \/ reply.nkt = None

\* The test of line 294.
RouterReady(reply) ==
    reply.nsk = None /\ reply.nrk = None /\ reply.nkt = None

\* jnpr.Close(): the sessions that stay open.  Lines 240, 338, 345, 356, 369,
\* 389 and 396.
CloseSkipped(open, router) == open
Close(open, router) == open \ {router}

\* return needsKey, ActiveIDs, err of getKeychainStatus to loop
StatusReturn(needs, ids, e) ==
    /\ needsKey' = needs
    /\ usedKey' = ids
    /\ err' = e
    /\ pc' = "status"

\* junos.NewSession for the next router of the poll.
PollConnect(ok) ==
    /\ pc = "poll"
    /\ idx <= NumDevices
    /\ IF ok
       THEN /\ sessions' = sessions \cup {Config.Devices[idx]}
            /\ pc' = "poll_open"
            /\ hist' = [hist EXCEPT !.contacted = Append(@, Config.Devices[idx])]
            /\ UNCHANGED <<needsKey, usedKey, err>>
       ELSE /\ StatusReturn(FALSE, <<>>, "connect")
            /\ hist' = [hist EXCEPT !.statusErr = "connect", !.statusDone = TRUE,
                                    !.contacted = Append(@, Config.Devices[idx])]
            /\ UNCHANGED sessions
    /\ UNCHANGED <<Config, UsedKey, Template, lastResult, cycle, now, ActiveIDs,
                   readyForKeys, idx, configCommands, committed, routers,
                   applyErr>>

\* The closure of lines 239-300 and the test of line 302.
PollQuery(reply) ==
    /\ pc = "poll_open"
    /\ sessions' = Close(sessions, Config.Devices[idx])
    /\ LET e == RouterError(reply)
           router == Config.Devices[idx]
       IN IF e # NoErr
          THEN /\ StatusReturn(FALSE, <<>>, e)
               /\ hist' = [hist EXCEPT !.statusErr = e, !.statusDone = TRUE,
                                       !.uptime = UptimeQueries(@)]
               /\ UNCHANGED <<ActiveIDs, readyForKeys, idx>>
          ELSE /\ ActiveIDs' = Append(ActiveIDs, Atoi(reply.ask).val)
               /\ readyForKeys' = IF RouterReady(reply)
                                   THEN Append(readyForKeys, router)
                                   ELSE readyForKeys
               /\ idx' = idx + 1
               /\ pc' = "poll"
               /\ hist' = [hist EXCEPT !.polled = Append(@,
                                [slot |-> Atoi(reply.ask).val,
                                 staged |-> {reply.nsk, reply.nrk, reply.nkt} # {None}]),
                                       !.uptime = UptimeQueries(@)]
               /\ UNCHANGED <<needsKey, usedKey, err>>
    /\ UNCHANGED <<Config, UsedKey, Template, lastResult, cycle, now,
                   configCommands, committed, routers, applyErr>>

StatusResultPartial ==
    IF ~checkIfSame(ActiveIDs) THEN [needs |-> FALSE, ids |-> <<>>, e |-> "unsynchronized"]
    ELSE IF Len(readyForKeys) > 0
         THEN IF Len(Config.Devices) # Len(readyForKeys)
              THEN [needs |-> FALSE, ids |-> <<>>, e |-> NoErr]
              ELSE [needs |-> TRUE, ids |-> ActiveIDs, e |-> NoErr]
         ELSE [needs |-> FALSE, ids |-> ActiveIDs, e |-> NoErr]

\* Lines 307-319, after the last router.
StatusResult ==
    IF ~checkIfSame(ActiveIDs) THEN [needs |-> FALSE, ids |-> <<>>, e |-> "unsynchronized"]
    ELSE IF Len(readyForKeys) > 0
         THEN IF Len(Config.Devices) # Len(readyForKeys)
              THEN [needs |-> FALSE, ids |-> <<>>, e |-> "notallready"]
              ELSE [needs |-> TRUE, ids |-> ActiveIDs, e |-> NoErr]
         ELSE [needs |-> FALSE, ids |-> ActiveIDs, e |-> NoErr]

PollDone ==
    /\ pc = "poll"
    /\ idx > NumDevices
    /\ LET r == StatusResult
       IN /\ StatusReturn(r.needs, r.ids, r.e)
          /\ hist' = [hist EXCEPT !.statusErr = r.e, !.statusNeeds = r.needs,
                                  !.statusIDs = r.ids, !.statusDone = TRUE]
    /\ UNCHANGED <<Config, UsedKey, Template, lastResult, cycle, now, ActiveIDs,
                   readyForKeys, idx, configCommands, committed, routers,
                   applyErr, sessions>>

\* ------------------------------------------------------------- Generate
\* time.Format("2006-01-02.15:04:05") of a time given in hours: day and hour.
FormatTime(t) == <<t \div 24, t % 24>>

\* The three values appended by iteration i of Generate in this cycle.  The
\* 32 random bytes of a read are a value no other read returns.
NewCAK(i) == <<cycle, i, "cak">>
NewCKN(i) == <<cycle, i, "ckn">>
NewROLL(i) ==
    LET initial == now + Config.Interval
        next == initial + i * Config.Interval
    IN FormatTime(next)

\* Generate, with the read that fails: fail.iter = RingLen when none does,
\* fail.read = 1 for the read of the secret, 2 for the read of the key-name.
NoFailure == [iter |-> RingLen, read |-> 1]
GenFailures == {NoFailure} \cup [iter : GenFailIters, read : {1, 2}]

GenerateInto(t, fail) ==
    LET full == fail.iter                       \* iterations run to their end
        cak == IF fail.iter < RingLen /\ fail.read = 2 THEN full + 1 ELSE full
    IN [CAK |-> t.CAK \o [i \in 1..cak |-> NewCAK(i - 1)],
        CKN |-> t.CKN \o [i \in 1..full |-> NewCKN(i - 1)],
        ROLL |-> t.ROLL \o [i \in 1..full |-> NewROLL(i - 1)]]

\* ------------------------------------------------------------ keychain.tmpl
inc(i) == i + 1

\* One line of the rendered text: a set-statement, or a line without one.
BlankLine == [blank |-> TRUE, chain |-> "", key |-> 0, attr |-> "", value |-> <<>>]
Statement(key, attr, value) ==
    [blank |-> FALSE, chain |-> Keychain, key |-> key, attr |-> attr, value |-> value]

EntryLinesGreater(x, a, attr, used) ==
    IF x > used
    THEN <<Statement(inc(x), attr, a)>>
    ELSE <<BlankLine, Statement(x, attr, a), BlankLine>>

\* The body of one range over index x and element a.
EntryLines(x, a, attr, used) ==
    IF x >= used
    THEN <<Statement(inc(x), attr, a)>>
    ELSE <<BlankLine, Statement(x, attr, a), BlankLine>>

RECURSIVE RangeLines(_, _, _, _)
RangeLines(values, attr, used, x) ==
    IF x >= Len(values) THEN <<BlankLine>>
    ELSE EntryLines(x, values[x + 1], attr, used) \o RangeLines(values, attr, used, x + 1)

\* tmpl.Execute: the lines of the rendered template.
Execute(t, used) ==
    <<BlankLine, BlankLine>>
    \o RangeLines(t.CAK, "secret", used, 0)
    \o RangeLines(t.CKN, "key-name", used, 0)
    \o RangeLines(t.ROLL, "start-time", used, 0)

\* Lines 151-155: the lines that are not blank.
SplitCommands(lines) == SelectSeq(lines, LAMBDA l : ~l.blank)

Render(t, used) == SplitCommands(Execute(t, used))
\* Lines 144 and 151-155: the template is executed into renderedTemplate,
\* empty since line 102, and its lines are appended to configCommands.
RenderInto(commands, t, used) == commands \o Render(t, used)

\* ------------------------------------------------------------------- loop
StatusBranchLengthFirst(e, ids, needs) ==
    IF Len(Config.Devices) # Len(ids) THEN "mismatch"
    ELSE IF e # NoErr THEN "error"
    ELSE IF ~needs THEN "noop"
    ELSE "rotate"

StatusBranchOnLength(e, ids, needs) ==
    IF e # NoErr THEN "error"
    ELSE IF Len(Config.Devices) # Len(ids) THEN "mismatch"
    ELSE IF Len(ids) = 0 THEN "noop"
    ELSE "rotate"

\* The tests of lines 107, 113 and 119 on the result of getKeychainStatus.
StatusBranch(e, ids, needs) ==
    IF e # NoErr THEN "error"
    ELSE IF Len(Config.Devices) # Len(ids) THEN "mismatch"
    ELSE IF ~needs THEN "noop"
    ELSE "rotate"

\* Lines 107-125: what loop does with the result of getKeychainStatus.
LoopStatus ==
    /\ pc = "status"
    /\ LET branch == StatusBranch(err, usedKey, needsKey) IN
       IF branch = "error"
       THEN /\ GaugeSet(RunError)
            /\ pc' = "sleep"
            /\ UNCHANGED <<UsedKey, err>>
       ELSE IF branch = "mismatch"
       THEN /\ GaugeSet(RunWarning)
            /\ pc' = "sleep"
            /\ err' = "mismatch"
            /\ UNCHANGED UsedKey
       ELSE IF branch = "noop"
       THEN /\ GaugeSet(RunSuccess)
            /\ pc' = "sleep"
            /\ UNCHANGED <<UsedKey, err>>
       ELSE /\ UsedKey' = usedKey[1]
            /\ pc' = "generate"
            /\ UNCHANGED <<lastResult, hist, err>>
    /\ UNCHANGED <<Config, Template, cycle, now, ActiveIDs, readyForKeys, idx,
                   needsKey, usedKey, configCommands, committed, routers,
                   applyErr, sessions>>

GenerateErrorNoReturn ==
    /\ lastResult' = RunWarning
    /\ hist' = [hist EXCEPT !.gaugeSets = @ + 1, !.generated = TRUE]
    /\ err' = "rand"
    /\ pc' = "render"

GenerateErrorUnrecorded ==
    /\ hist' = [hist EXCEPT !.generated = TRUE]
    /\ err' = "rand"
    /\ pc' = "sleep"
    /\ UNCHANGED lastResult

\* Lines 127-129: the error branch of the call of Generate.
GenerateError ==
    /\ lastResult' = RunWarning
    /\ hist' = [hist EXCEPT !.gaugeSets = @ + 1, !.generated = TRUE]
    /\ err' = "rand"
    /\ pc' = "sleep"

\* Lines 126-130: s.Generate() and its error branch.
Generate(fail) ==
    /\ pc = "generate"
    /\ Template' = GenerateInto(Template, fail)
    /\ IF fail.iter < RingLen
       THEN GenerateError
       ELSE /\ hist' = [hist EXCEPT !.generated = TRUE]
            /\ pc' = "render"
            /\ UNCHANGED <<lastResult, err>>
    /\ UNCHANGED <<Config, UsedKey, cycle, now, ActiveIDs, readyForKeys, idx,
                   needsKey, usedKey, configCommands, committed, routers,
                   applyErr, sessions>>

\* Lines 132-158: parse and execute the template, split the lines, and
\* enter updateKeychain.
RenderTemplate(outcome) ==
    /\ pc = "render"
    /\ IF outcome = "ok"
       THEN /\ configCommands' = RenderInto(configCommands, Template, UsedKey)
            /\ pc' = "probe"
            /\ idx' = 1
            /\ committed' = <<>>
            /\ UNCHANGED <<lastResult, hist, err>>
       ELSE /\ GaugeSet(RunWarning)
            /\ err' = outcome
            /\ pc' = "sleep"
            /\ UNCHANGED <<configCommands, idx, committed>>
    /\ UNCHANGED <<Config, UsedKey, Template, cycle, now, ActiveIDs, readyForKeys,
                   needsKey, usedKey, routers, applyErr, sessions>>

\* --------------------------------------------------------- the routers
\* What jnpr.CommitCheck, jnpr.Config and jnpr.Rollback may return: nil, the
\* error whose text is Benign, or another error.
Outcomes == {"ok", Benign, "error"}

\* The tests `err != nil` and `err.Error() == "expected element ..."`: the
\* call counts as done.  Lines 337-343, 355-360 and 388-392.
ProbePassedAlways(outcome) == TRUE
RollbackPassedAlways(outcome) == TRUE
ApplyPassedOnNil(outcome) == outcome = "ok"
ApplyPassedAlways(outcome) == TRUE
ProbePassed(outcome) == outcome = "ok" \/ outcome = Benign
ApplyPassed(outcome) == outcome = "ok" \/ outcome = Benign
RollbackPassed(outcome) == outcome = "ok" \/ outcome = Benign

\* A commit that took effect: the router runs the batch of this cycle and
\* keeps what it ran before as rollback 1.
Commit(h, d) == [h EXCEPT !.dev[d] = [cur |-> "new", prev |-> h.dev[d].cur]]
\* rollback 1 and commit: the router runs what it ran before the last commit.
Revert(h, d) == [h EXCEPT !.dev[d] = [cur |-> h.dev[d].prev, prev |-> h.dev[d].cur]]

\* hist after one more call of a pass on a router, with what it returned.
Logged(pass, router, outcome) ==
    [hist EXCEPT !.ops = Append(@, <<pass, router>>), !.last = outcome]

\* ---------------------------------------------------------- updateKeychain
\* return err of updateKeychain to loop
UpdateReturn(e) ==
    /\ err' = e
    /\ pc' = "updated"

\* Line 331: the session of the probe pass.
ProbeConnect(ok) ==
    /\ pc = "probe"
    /\ idx <= NumDevices
    /\ LET router == Config.Devices[idx]
       IN IF ok
          THEN /\ sessions' = sessions \cup {router}
               /\ pc' = "probe_open"
               /\ hist' = hist
               /\ UNCHANGED err
          ELSE /\ UpdateReturn("connect")
               /\ hist' = [Logged("probe", router, "connect") EXCEPT !.probeFail = router]
               /\ UNCHANGED sessions
    /\ UNCHANGED <<Config, UsedKey, Template, lastResult, cycle, now, ActiveIDs,
                   readyForKeys, idx, needsKey, usedKey, configCommands,
                   committed, routers, applyErr>>

\* Lines 336-344: jnpr.CommitCheck and the close of the session.
ProbeCheck(outcome) ==
    /\ pc = "probe_open"
    /\ LET router == Config.Devices[idx]
       IN /\ sessions' = Close(sessions, router)
          /\ IF ProbePassed(outcome)
             THEN /\ idx' = idx + 1
                  /\ pc' = "probe"
                  /\ hist' = Logged("probe", router, outcome)
                  /\ UNCHANGED err
             ELSE /\ UpdateReturn("check")
                  /\ hist' = [Logged("probe", router, outcome) EXCEPT !.probeFail = router]
                  /\ UNCHANGED idx
    /\ UNCHANGED <<Config, UsedKey, Template, lastResult, cycle, now, ActiveIDs,
                   readyForKeys, needsKey, usedKey, configCommands, committed,
                   routers, applyErr>>

\* The end of the range of line 330; the range of line 348 begins.
ProbeDone ==
    /\ pc = "probe"
    /\ idx > NumDevices
    /\ pc' = "apply"
    /\ idx' = 1
    /\ UNCHANGED <<Config, UsedKey, Template, lastResult, cycle, now, ActiveIDs,
                   readyForKeys, needsKey, usedKey, err, configCommands,
                   committed, routers, applyErr, sessions, hist>>

\* Line 349: the session of the apply pass.
ApplyConnect(ok) ==
    /\ pc = "apply"
    /\ idx <= NumDevices
    /\ LET router == Config.Devices[idx]
       IN IF ok
          THEN /\ sessions' = sessions \cup {router}
               /\ pc' = "apply_open"
               /\ hist' = hist
               /\ UNCHANGED err
          ELSE /\ UpdateReturn("connect")
               /\ hist' = [Logged("apply", router, "connect") EXCEPT !.applyFail = router]
               /\ UNCHANGED sessions
    /\ UNCHANGED <<Config, UsedKey, Template, lastResult, cycle, now, ActiveIDs,
                   readyForKeys, idx, needsKey, usedKey, configCommands,
                   committed, routers, applyErr>>

\* Line 362: the routers handed to rollbackCommitted.
RollbackListAll(done) == Config.Devices
RollbackList(done) == done

\* Lines 354-369: jnpr.Config(cmds, "set", true), the close of the session and,
\* on an error other than Benign, the call of rollbackCommitted.
ApplyConfig(outcome) ==
    /\ pc = "apply_open"
    /\ LET router == Config.Devices[idx]
       IN /\ sessions' = Close(sessions, router)
          /\ IF ApplyPassed(outcome)
             THEN /\ committed' = Append(committed, router)
                  /\ idx' = idx + 1
                  /\ pc' = "apply"
                  /\ hist' = Commit(Logged("apply", router, outcome), router)
                  /\ UNCHANGED <<routers, applyErr>>
             ELSE /\ applyErr' = "config"
                  /\ routers' = RollbackList(committed)
                  /\ idx' = 1
                  /\ pc' = "rollback"
                  /\ hist' = [Logged("apply", router, outcome) EXCEPT !.applyFail = router,
                                          !.rollbackCalled = TRUE,
                                          !.rollbackArg = RollbackList(committed)]
                  /\ UNCHANGED committed
    /\ UNCHANGED <<Config, UsedKey, Template, lastResult, cycle, now, ActiveIDs,
                   readyForKeys, needsKey, usedKey, err, configCommands>>

\* Line 372: every router is committed.
ApplyDone ==
    /\ pc = "apply"
    /\ idx > NumDevices
    /\ UpdateReturn(NoErr)
    /\ UNCHANGED <<Config, UsedKey, Template, lastResult, cycle, now, ActiveIDs,
                   readyForKeys, idx, needsKey, usedKey, configCommands,
                   committed, routers, applyErr, sessions, hist>>

\* -------------------------------------------------------- rollbackCommitted
RollbackReturnApplyError(rollErr) == UpdateReturn(applyErr)

\* Lines 362-365: what updateKeychain returns once rollbackCommitted has.
RollbackReturn(rollErr) ==
    UpdateReturn(IF rollErr # NoErr THEN "config+rollback" ELSE applyErr)

\* Line 382: the session of the rollback.
RollbackConnect(ok) ==
    /\ pc = "rollback"
    /\ idx <= Len(routers)
    /\ LET router == routers[idx]
       IN IF ok
          THEN /\ sessions' = sessions \cup {router}
               /\ pc' = "rollback_open"
               /\ hist' = hist
               /\ UNCHANGED err
          ELSE /\ RollbackReturn("connect")
               /\ hist' = [Logged("rollback", router, "connect") EXCEPT !.rollErr = "connect"]
               /\ UNCHANGED sessions
    /\ UNCHANGED <<Config, UsedKey, Template, lastResult, cycle, now, ActiveIDs,
                   readyForKeys, idx, needsKey, usedKey, configCommands,
                   committed, routers, applyErr>>

\* Lines 387-396: jnpr.Rollback(1) and the close of the session.
RollbackRouter(outcome) ==
    /\ pc = "rollback_open"
    /\ LET router == routers[idx]
       IN /\ sessions' = Close(sessions, router)
          /\ IF RollbackPassed(outcome)
             THEN /\ idx' = idx + 1
                  /\ pc' = "rollback"
                  /\ hist' = Revert(Logged("rollback", router, outcome), router)
                  /\ UNCHANGED err
             ELSE /\ RollbackReturn("rollback")
                  /\ hist' = [Logged("rollback", router, outcome) EXCEPT !.rollErr = "rollback"]
                  /\ UNCHANGED idx
    /\ UNCHANGED <<Config, UsedKey, Template, lastResult, cycle, now, ActiveIDs,
                   readyForKeys, needsKey, usedKey, configCommands, committed,
                   routers, applyErr>>

\* Line 399: every router of the list is reverted.
RollbackDone ==
    /\ pc = "rollback"
    /\ idx > Len(routers)
    /\ RollbackReturn(NoErr)
    /\ UNCHANGED <<Config, UsedKey, Template, lastResult, cycle, now, ActiveIDs,
                   readyForKeys, idx, needsKey, usedKey, configCommands,
                   committed, routers, applyErr, sessions, hist>>

\* Lines 158-165: the gauge value loop records for the error updateKeychain
\* returned.
UpdateOutcomeRolledBack(e) ==
    IF e = "config" THEN RunSuccess
    ELSE IF e # NoErr THEN RunError ELSE RunSuccess
UpdateOutcomeWarning(e) == IF e # NoErr THEN RunWarning ELSE RunSuccess
UpdateOutcome(e) == IF e # NoErr THEN RunError ELSE RunSuccess

\* Lines 158-166: what loop does with the result of updateKeychain.
LoopUpdated ==
    /\ pc = "updated"
    /\ GaugeSet(UpdateOutcome(err))
    /\ pc' = "sleep"
    /\ UNCHANGED <<Config, UsedKey, Template, cycle, now, ActiveIDs, readyForKeys,
                   idx, needsKey, usedKey, err, configCommands, committed,
                   routers, applyErr, sessions>>

SleepAfterSuccess ==
    /\ pc = "sleep"
    /\ lastResult = RunSuccess
    /\ now' = now + SleepHours
    /\ pc' = "run"
    /\ UNCHANGED <<Config, UsedKey, Template, lastResult, cycle, ActiveIDs,
                   readyForKeys, idx, needsKey, usedKey, err, configCommands,
                   committed, routers, applyErr, sessions, hist>>

\* Lines 95-98: loop has returned; Run sleeps and starts over.
Sleep ==
    /\ pc = "sleep"
    /\ now' = now + SleepHours
    /\ pc' = "run"
    /\ UNCHANGED <<Config, UsedKey, Template, lastResult, cycle, ActiveIDs,
                   readyForKeys, idx, needsKey, usedKey, err, configCommands,
                   committed, routers, applyErr, sessions, hist>>

\* The steps that are the same whatever the random source and the template do.
Steps ==
    \/ BeginLoop
    \/ \E ok \in BOOLEAN : PollConnect(ok)
    \/ \E reply \in Replies : PollQuery(reply)
    \/ PollDone
    \/ LoopStatus
    \/ \E ok \in BOOLEAN : ProbeConnect(ok)
    \/ \E outcome \in Outcomes : ProbeCheck(outcome)
    \/ ProbeDone
    \/ \E ok \in BOOLEAN : ApplyConnect(ok)
    \/ \E outcome \in Outcomes : ApplyConfig(outcome)
    \/ ApplyDone
    \/ \E ok \in BOOLEAN : RollbackConnect(ok)
    \/ \E outcome \in Outcomes : RollbackRouter(outcome)
    \/ RollbackDone
    \/ LoopUpdated
    \/ Sleep

\* Every branch of the code, the error branches of rand.Read, ParseFS and
\* Execute included.
Next ==
    \/ Steps
    \/ \E fail \in GenFailures : Generate(fail)
    \/ \E outcome \in {"ok", "parse", "execute"} : RenderTemplate(outcome)

Spec == Init /\ [][Next]_vars

\* Run is one goroutine that executes `for { s.loop(log); time.Sleep(...) }`
\* statement after statement: as long as the calls it makes return, the step
\* that is enabled is taken.
SpecFair == Init /\ [][Next]_vars /\ WF_vars(Next)

\* The program built with the Go release of go.mod (1.25), where rand.Read
\* returns no error, and with the keychain.tmpl that is embedded, which
\* parses and executes: only the routers can fail.
NextBuild ==
    \/ Steps
    \/ Generate(NoFailure)
    \/ RenderTemplate("ok")

SpecBuild == Init /\ [][NextBuild]_vars

\* ------------------------------------------------- the renderer on its own
\* The loop at line 132 of its first rotation, for every active key id
\* 0..RingLen the fleet may have agreed on.
RenderInit ==
    /\ Config \in {[Interval |-> iv, NTP |-> ntp, Devices |-> [i \in 1..n |-> i]] :
                      iv \in Intervals, ntp \in BOOLEAN, n \in 1..MaxDevices}
    /\ UsedKey \in 0..RingLen
    /\ cycle = 1
    /\ now = 0
    /\ Template = GenerateInto(NewTemplate, NoFailure)
    /\ lastResult = 0
    /\ pc = "render"
    /\ ActiveIDs = [d \in 1..NumDevices |-> UsedKey]
    /\ readyForKeys = Config.Devices
    /\ idx = NumDevices + 1
    /\ needsKey = TRUE
    /\ usedKey = ActiveIDs
    /\ err = NoErr
    /\ configCommands = <<>>
    /\ committed = <<>>
    /\ routers = <<>>
    /\ applyErr = NoErr
    /\ sessions = {}
    /\ hist = [NoHist EXCEPT
                 !.ring = NewTemplate,
                 !.polled = [d \in 1..NumDevices |-> [slot |-> UsedKey, staged |-> FALSE]],
                 !.contacted = Config.Devices,
                 !.uptime = IF Config.NTP THEN NumDevices ELSE 0,
                 !.statusNeeds = TRUE,
                 !.statusIDs = ActiveIDs,
                 !.statusDone = TRUE,
                 !.generated = TRUE,
                 !.dev = [d \in 1..NumDevices |-> [cur |-> "start", prev |-> "before"]]]

RenderNext == \E outcome \in {"ok", "parse", "execute"} : RenderTemplate(outcome)

SpecRender == RenderInit /\ [][RenderNext]_vars

\* ------------------------------------------------- Generate on its own
\* "interval" of config.json is an int that readConfig does not validate: it
\* is 0 when the field is absent and may be negative.
ConfigIntervals == {-1, 0, 1, 2, 24, 168}
\* time.Now(), in hours, when Generate is called.
StartHours == {0, 5, 23, 100}

\* The loop at line 126 of its first rotation, for the intervals of
\* ConfigIntervals and the hours of StartHours.
GenerateInit ==
    /\ Config \in {[Interval |-> iv, NTP |-> FALSE, Devices |-> [i \in 1..n |-> i]] :
                      iv \in ConfigIntervals, n \in 1..MaxDevices}
    /\ UsedKey = 5
    /\ cycle = 1
    /\ now \in StartHours
    /\ Template = NewTemplate
    /\ lastResult = 0
    /\ pc = "generate"
    /\ ActiveIDs = [d \in 1..NumDevices |-> UsedKey]
    /\ readyForKeys = Config.Devices
    /\ idx = NumDevices + 1
    /\ needsKey = TRUE
    /\ usedKey = ActiveIDs
    /\ err = NoErr
    /\ configCommands = <<>>
    /\ committed = <<>>
    /\ routers = <<>>
    /\ applyErr = NoErr
    /\ sessions = {}
    /\ hist = [NoHist EXCEPT
                 !.ring = NewTemplate,
                 !.polled = [d \in 1..NumDevices |-> [slot |-> UsedKey, staged |-> FALSE]],
                 !.contacted = Config.Devices,
                 !.uptime = IF Config.NTP THEN NumDevices ELSE 0,
                 !.statusNeeds = TRUE,
                 !.statusIDs = ActiveIDs,
                 !.statusDone = TRUE,
                 !.dev = [d \in 1..NumDevices |-> [cur |-> "start", prev |-> "before"]]]

GenerateNext == \E fail \in GenFailures : Generate(fail)

SpecGenerate == GenerateInit /\ [][GenerateNext]_vars

\* ================================================================ claims
\* loop has returned and Run has not started the next one.
CycleEnded == pc = "sleep" \/ (pc = "run" /\ cycle > 0)
\* updateKeychain has returned.
UpdateEnded == pc = "updated" \/ (CycleEnded /\ hist.ops # <<>>)
\* The routers that run the batch of this cycle.
Holding == {d \in DOMAIN hist.dev : hist.dev[d].cur = "new"}
\* The routers on which a pass was called, in the order of the calls.
CallsOf(pass) ==
    LET calls == SelectSeq(hist.ops, LAMBDA o : o[1] = pass)
    IN [i \in 1..Len(calls) |-> calls[i][2]]
IsPrefix(a, b) == Len(a) <= Len(b) /\ SubSeq(b, 1, Len(a)) = a
FirstDevices(k) == SubSeq(Config.Devices, 1, k)

\* C1: when the apply fails on router k, for a refused session as for a
\* failed commit, rollbackCommitted is called with routers 1..k-1 in that
\* order and reverts no other router.
C1_RollbackOnApplyFailure ==
    (hist.applyFail # 0 /\ UpdateEnded) =>
        /\ hist.rollbackArg = FirstDevices(hist.applyFail - 1)
        /\ IsPrefix(CallsOf("rollback"), hist.rollbackArg)

\* C2: at the end of a cycle in which no rollback failed, the batch of the
\* cycle runs on every router or on none.
C2_FleetAtomicity ==
    (CycleEnded /\ hist.rollErr = NoErr) =>
        (Holding = {} \/ Holding = 1..NumDevices)

\* C3: the ring handed to the renderer holds RingLen secrets, key-names and
\* activation times, all generated in the cycle in progress.
C3_FreshRing ==
    pc = "render" =>
        /\ Len(Template.CAK) = RingLen
        /\ Len(Template.CKN) = RingLen
        /\ Len(Template.ROLL) = RingLen
        /\ \A i \in 1..Len(Template.CAK) : Template.CAK[i][1] = cycle
        /\ \A i \in 1..Len(Template.CKN) : Template.CKN[i][1] = cycle

\* The slot the specification assigns to ring position i.
SlotOf(i, activeSlot) == IF i < activeSlot THEN i ELSE i + 1
StatementsOf(slot) ==
    {j \in 1..Len(configCommands) : configCommands[j].key = slot}
HasStatement(slot, attr, value) ==
    \E j \in StatementsOf(slot) :
        configCommands[j].attr = attr /\ configCommands[j].value = value

\* C4: for an active slot in 0..31 and a ring of 31 entries the statements
\* rendered touch exactly the slots 0..31 without the active one, position i
\* of the ring going to slot i (i < active) or i+1, and each slot gets three
\* statements: the secret, key-name and start-time of its ring position.
C4_SlotBijection ==
    (pc = "probe" /\ UsedKey \in 0..RingLen
        /\ Len(Template.CAK) = RingLen /\ Len(Template.CKN) = RingLen
        /\ Len(Template.ROLL) = RingLen) =>
        /\ {configCommands[j].key : j \in 1..Len(configCommands)}
              = (0..RingLen) \ {UsedKey}
        /\ \A i \in 0..(RingLen - 1) :
              /\ Cardinality(StatementsOf(SlotOf(i, UsedKey))) = 3
              /\ HasStatement(SlotOf(i, UsedKey), "secret", Template.CAK[i + 1])
              /\ HasStatement(SlotOf(i, UsedKey), "key-name", Template.CKN[i + 1])
              /\ HasStatement(SlotOf(i, UsedKey), "start-time", Template.ROLL[i + 1])
              /\ \A k \in 0..(RingLen - 1) :
                    k # i => SlotOf(k, UsedKey) # SlotOf(i, UsedKey)

C4_Witness ==
    /\ pc = "probe"
    /\ UsedKey = 17
    /\ HasStatement(16, "secret", Template.CAK[17])
    /\ HasStatement(18, "secret", Template.CAK[18])

\* C5: no statement handed to updateKeychain is for the key id the routers
\* reported as active in the poll of the same cycle.
C5_ActiveSlotUntouched ==
    configCommands # <<>> =>
        /\ \A j \in 1..Len(configCommands) : configCommands[j].key # UsedKey
        /\ Len(hist.polled) = NumDevices
        /\ \A d \in 1..Len(hist.polled) : hist.polled[d].slot = UsedKey

C5_Witness ==
    /\ pc = "apply_open"
    /\ cycle = 2
    /\ UsedKey = 5
    /\ Len(Template.CAK) = RingLen + RingLen
    /\ Len(configCommands) > 0

\* What the poll of this cycle saw.
Answered == Len(hist.polled) = NumDevices
SameSlot == \A i, j \in 1..Len(hist.polled) : hist.polled[i].slot = hist.polled[j].slot
AllReady == \A i \in 1..Len(hist.polled) : ~hist.polled[i].staged
NoneReady == \A i \in 1..Len(hist.polled) : hist.polled[i].staged
ReadinessVerdict ==
    /\ (hist.statusNeeds /\ hist.statusErr = NoErr) <=> AllReady
    /\ (~hist.statusNeeds /\ hist.statusErr = NoErr) <=> NoneReady
    /\ (hist.statusErr # NoErr) <=> (~AllReady /\ ~NoneReady)

\* C6 as stated: when every router answered with the same active slot,
\* needsRotation is true iff all are ready, false iff none is, and there is
\* an error iff some but not all are; ready means the three next-fields are
\* all "None".
C6_ReadinessAsStated ==
    (hist.statusDone /\ Answered /\ SameSlot) => ReadinessVerdict

\* C6 amended: the same for a fleet of at least one router.
C6_Readiness ==
    (hist.statusDone /\ Answered /\ SameSlot /\ NumDevices >= 1) => ReadinessVerdict

C6_Witness ==
    /\ hist.statusDone /\ Answered /\ SameSlot
    /\ NumDevices = 3
    /\ hist.polled[1].staged /\ ~hist.polled[2].staged
    /\ hist.statusErr = "notallready"

C8_NoActionWithoutRotation ==
    (hist.statusDone /\ (hist.statusErr # NoErr \/ ~hist.statusNeeds)) =>
        /\ ~hist.generated
        /\ Template = hist.ring
        /\ hist.ops = <<>>
        /\ configCommands = <<>>
        /\ sessions = {}
        /\ Holding = {}

C8_Witness ==
    /\ CycleEnded
    /\ NumDevices = 3
    /\ Answered /\ SameSlot /\ ~AllReady /\ ~NoneReady
    /\ hist.statusErr = "notallready"
    /\ hist.ops = <<>>

\* C9: every router is probed before the first apply; a probe that fails
\* other than with the benign reply ends updateKeychain with an error, with
\* no router changed and no apply or rollback called.
C9_ProbeBeforeApply ==
    /\ CallsOf("apply") # <<>> =>
          /\ Len(hist.ops) > NumDevices
          /\ \A i \in 1..NumDevices : hist.ops[i] = <<"probe", Config.Devices[i]>>
    /\ (hist.ops # <<>> /\ hist.ops[Len(hist.ops)][1] = "probe"
          /\ hist.last \notin {"ok", Benign}) =>
          hist.probeFail = hist.ops[Len(hist.ops)][2]
    /\ hist.probeFail # 0 =>
          /\ UpdateEnded
          /\ err # NoErr
          /\ CallsOf("apply") = <<>>
          /\ CallsOf("rollback") = <<>>
          /\ \A d \in 1..NumDevices : hist.dev[d] = [cur |-> "start", prev |-> "before"]

C9_Witness ==
    /\ pc = "updated"
    /\ hist.probeFail = 2
    /\ hist.last = "error"
    /\ hist.ops = <<(<<"probe", 1>>), (<<"probe", 2>>)>>

\* C10: a cycle sets the gauge exactly once, to 0.0, 0.5 or 1.0, and has
\* done so when loop returns.
C10_OneOutcomePerCycle ==
    /\ hist.gaugeSets <= 1
    /\ CycleEnded =>
          /\ hist.gaugeSets = 1
          /\ lastResult \in {RunError, RunWarning, RunSuccess}
    /\ (cycle > 0 /\ ~CycleEnded) => hist.gaugeSets = 0

C10_Witness ==
    /\ pc = "sleep"
    /\ hist.generated
    /\ err = "rand"
    /\ lastResult = RunWarning
    /\ hist.gaugeSets = 1

\* getKeychainStatus returned needsRotation = false and no error.
NoRotationNeeded ==
    hist.statusDone /\ hist.statusErr = NoErr /\ ~hist.statusNeeds
\* The probe and the apply were called on every router and none failed.
AppliedEverywhere ==
    /\ UpdateEnded
    /\ hist.probeFail = 0
    /\ hist.applyFail = 0
    /\ NumDevices > 0
    /\ committed = Config.Devices
    /\ Holding = 1..NumDevices
RollbackIssued == hist.rollbackCalled \/ CallsOf("rollback") # <<>>

\* C11: a cycle that has ended left the gauge at Success exactly when the
\* poll answered "no rotation needed" without an error, or the apply went
\* through (nil or the benign error) on every router and no rollback was
\* issued in the cycle.
C11_SuccessIff ==
    CycleEnded =>
        (lastResult = RunSuccess <=>
            (NoRotationNeeded \/ (AppliedEverywhere /\ ~RollbackIssued)))

C11_Witness ==
    /\ CycleEnded
    /\ lastResult = RunSuccess
    /\ AppliedEverywhere
    /\ ~RollbackIssued
    /\ NumDevices >= 2
    /\ hist.last = Benign

\* getKeychainStatus returned an error.
AggregationFailed == hist.statusDone /\ hist.statusErr # NoErr
\* updateKeychain returned an error.
UpdateFailed == UpdateEnded /\ (hist.probeFail # 0 \/ hist.applyFail # 0)

\* C12: a cycle in which getKeychainStatus or updateKeychain failed ends with
\* the gauge at Error; so does one whose apply failed, whether the rollback
\* that followed succeeded or failed.
C12_ErrorOnFailure ==
    (CycleEnded /\ (AggregationFailed \/ UpdateFailed)) =>
        /\ lastResult = RunError
        /\ hist.gaugeSets = 1

\* An apply failed on the last of three routers and the rollback of the two
\* committed ones succeeded.
C12_Witness ==
    /\ CycleEnded
    /\ hist.applyFail = 3
    /\ hist.rollbackCalled
    /\ hist.rollErr = NoErr
    /\ CallsOf("rollback") = <<1, 2>>
    /\ lastResult = RunError

\* An apply failed and the rollback that followed failed as well.
C12_WitnessRollbackFailed ==
    /\ CycleEnded
    /\ hist.applyFail # 0
    /\ hist.rollErr # NoErr
    /\ lastResult = RunError

\* Generate was called in this cycle and one of its reads failed: it left
\* the ring short of the RingLen entries of a full run.
GenerationFailed ==
    hist.generated /\ Len(Template.CKN) < Len(hist.ring.CKN) + RingLen

\* C13: once Generate has failed the cycle is over with the gauge at Warning,
\* and no probe, apply or rollback was called and no session opened for one.
C13_GenerateFailureAborts ==
    GenerationFailed =>
        /\ CycleEnded
        /\ lastResult = RunWarning
        /\ hist.gaugeSets = 1
        /\ hist.ops = <<>>
        /\ ~hist.rollbackCalled
        /\ configCommands = <<>>
        /\ sessions = {}
        /\ Holding = {}

\* The read of the key-name failed: the secret of the iteration was appended.
C13_Witness ==
    /\ GenerationFailed
    /\ CycleEnded
    /\ Len(Template.CAK) > Len(Template.CKN)
    /\ lastResult = RunWarning
    /\ hist.ops = <<>>

\* The poll is over and fewer routers answered it than are configured.
PartialResponse == hist.statusDone /\ ~Answered

\* C14 as stated: a cycle in which the number of routers that answered the
\* poll differs from the number configured ends with the gauge at Warning,
\* without a call of Generate and without a call on a router.
C14_PartialResponseAsStated ==
    (PartialResponse /\ CycleEnded) =>
        /\ lastResult = RunWarning
        /\ ~hist.generated
        /\ hist.ops = <<>>

\* C14: when fewer routers answered the poll than are configured,
\* getKeychainStatus returned an error, and the cycle ends with the gauge at
\* Error, through the branch of the error and not the one of the count,
\* without a call of Generate and without a call on a router.
C14_PartialResponse ==
    PartialResponse =>
        /\ hist.statusErr # NoErr
        /\ err # "mismatch"
        /\ pc = "status" \/ CycleEnded
        /\ CycleEnded => (lastResult = RunError /\ hist.gaugeSets = 1)
        /\ ~hist.generated
        /\ Template = hist.ring
        /\ hist.ops = <<>>
        /\ Holding = {}

\* Two of three routers answered, the third refused the session.
C14_Witness ==
    /\ PartialResponse
    /\ NumDevices = 3
    /\ Len(hist.polled) = 2
    /\ hist.statusErr = "connect"
    /\ CycleEnded
    /\ lastResult = RunError

\* C15: rollbackCommitted calls the routers of its list in the order of the
\* list, each at most once; the first call that fails with a refused session
\* or an error other than Benign is its last: it returns (and updateKeychain
\* with it) with an error, and the routers after the failed one still run the
\* batch; while it goes on, every call made so far has passed.
C15_RollbackStopsAtFailure ==
    LET calls == CallsOf("rollback")
        k == Len(calls)
    IN /\ IsPrefix(calls, hist.rollbackArg)
       /\ (pc \in {"rollback", "rollback_open"}) =>
             /\ hist.rollErr = NoErr
             /\ k > 0 => hist.last \in {"ok", Benign}
       /\ hist.rollErr # NoErr =>
             /\ k >= 1
             /\ hist.last \in {"error", "connect"}
             /\ UpdateEnded
             /\ err = "config+rollback"
             /\ \A i \in k..Len(hist.rollbackArg) :
                   hist.dev[hist.rollbackArg[i]].cur = "new"
       /\ (hist.rollbackCalled /\ UpdateEnded /\ hist.rollErr = NoErr) =>
             /\ calls = hist.rollbackArg
             /\ \A i \in 1..k : hist.dev[calls[i]].cur = "start"

\* Two routers to revert; the session of the first is refused and the
\* second is not called.
C15_Witness ==
    /\ hist.rollErr # NoErr
    /\ hist.last = "connect"
    /\ hist.rollbackArg = <<1, 2>>
    /\ CallsOf("rollback") = <<1>>
    /\ UpdateEnded
    /\ hist.dev[2].cur = "new"

\* A step in which a call on a router returned nil or Benign.
CallPassed ==
    /\ Len(hist'.ops) = Len(hist.ops) + 1
    /\ hist'.last \in {"ok", Benign}
\* What such a step does in the pass it belongs to.
PassContinues ==
    LET op == hist'.ops[Len(hist'.ops)]
        pass == op[1]
        router == op[2]
    IN /\ idx' = idx + 1
       /\ err' = err
       /\ sessions' = {}
       /\ pass = "probe" =>
             /\ pc' = "probe"
             /\ hist'.probeFail = 0
             /\ hist'.dev = hist.dev
       /\ pass = "apply" =>
             /\ pc' = "apply"
             /\ committed' = Append(committed, router)
             /\ hist'.dev[router].cur = "new"
             /\ hist'.applyFail = 0
             /\ ~hist'.rollbackCalled
       /\ pass = "rollback" =>
             /\ pc' = "rollback"
             /\ hist'.rollErr = NoErr
             /\ hist'.dev[router].cur = hist.dev[router].prev

\* C16: a probe, apply or rollback call that returns the error Benign has the
\* effect of one that returns nil: the probe pass goes on to the next router,
\* the apply pass appends the router to committed and goes on, and
\* rollbackCommitted counts the router as reverted and goes on.
C16_BenignIsSuccess == [][CallPassed => PassContinues]_vars

\* The rollback of a router returned Benign after an apply had failed: the
\* router runs what it ran at the start and the rollback goes on.
C16_Witness ==
    /\ pc = "rollback"
    /\ hist.last = Benign
    /\ CallsOf("rollback") # <<>>
    /\ hist.rollErr = NoErr
    /\ hist.dev[1].cur = "start"
    /\ idx = 2

\* The order of two formatted times: by day, then by hour.
Before(a, b) == a[1] < b[1] \/ (a[1] = b[1] /\ a[2] < b[2])
\* Generate has just run to its end, on an empty ring.
RingGenerated ==
    /\ pc = "render"
    /\ hist.generated
    /\ hist.ring = NewTemplate
    /\ Len(Template.ROLL) = RingLen

\* C17: the ring Generate produced has, at position i of 0..30, the time
\* now + Interval + i * Interval, and these 31 times are strictly increasing,
\* whatever the interval of the configuration.
C17_ActivationSchedule ==
    RingGenerated =>
        /\ \A i \in 0..(RingLen - 1) :
              Template.ROLL[i + 1]
                  = FormatTime(now + Config.Interval + i * Config.Interval)
        /\ \A i, j \in 1..RingLen :
              i < j => Before(Template.ROLL[i], Template.ROLL[j])

\* A cycle begins only from Run, after the sleep that follows the one before
\* it, which has recorded its outcome and left no session open.
OneCycleAtATime ==
    /\ cycle' # cycle =>
          /\ pc = "run"
          /\ pc' = "poll"
          /\ cycle' = cycle + 1
          /\ sessions = {}
          /\ cycle > 0 => hist.gaugeSets = 1
    /\ (pc' = "run" /\ pc # "run") =>
          /\ pc = "sleep"
          /\ now' = now + SleepHours
          /\ hist.gaugeSets = 1
    /\ (pc' = "sleep" /\ pc # "sleep") => hist'.gaugeSets = 1

\* C18: loop runs one cycle at a time; every cycle that begins comes to its
\* end with one outcome recorded, the sleep of SleepHours follows, and after
\* it the next cycle begins whatever the outcome was (as far as MaxCycles
\* lets the model count).
C18_LoopNeverStops ==
    /\ [][OneCycleAtATime]_vars
    /\ (pc = "poll") ~> (pc = "sleep" /\ hist.gaugeSets = 1)
    /\ (pc = "sleep" /\ cycle < MaxCycles)
          ~> (pc = "poll" /\ idx = 1 /\ now >= SleepHours)

\* The second cycle has begun after a first one that ended in Warning.
C18_Witness ==
    /\ cycle = 2
    /\ pc = "poll"
    /\ idx = 1
    /\ lastResult = RunWarning
    /\ now = SleepHours

\* C19: the commands a cycle hands to updateKeychain are the rendering of
\* the ring and the active key id of that cycle and of nothing else: the
\* same ring and id give the same list, in the first cycle as in a later
\* one, and no line of an earlier rendering is in it.
C19_RenderStateless ==
    (pc \in {"probe", "probe_open", "apply", "apply_open", "rollback",
             "rollback_open", "updated"}) =>
        configCommands = Render(Template, UsedKey)

\* A second rendering by the same process: the first cycle rendered and
\* applied a ring, the second has rendered again.
C19_Witness ==
    /\ cycle = 2
    /\ pc = "probe"
    /\ hist.ring # NewTemplate
    /\ Len(hist.ring.CAK) = RingLen
    /\ configCommands # <<>>
    /\ configCommands = Render(Template, UsedKey)

\* The places of a cycle at which a router is being talked to.
InSession == {"poll_open", "probe_open", "apply_open", "rollback_open"}
\* The router of the call in progress.
CurrentRouter == IF pc = "rollback_open" THEN routers[idx] ELSE Config.Devices[idx]

\* C20: at most one session is open at any time, and only while the call on
\* its router is in progress: none is open when the next router is about to
\* be contacted, when a pass has ended and the next (the rollback after a
\* failed apply as well) begins, or when the cycle has ended, whatever the
\* calls returned.
C20_OneSessionAtATime ==
    /\ Cardinality(sessions) <= 1
    /\ pc \in InSession => sessions = {CurrentRouter}
    /\ pc \notin InSession => sessions = {}

\* The apply failed on router 2 and its session was closed; the only session
\* open is the one of the rollback of router 1.
C20_Witness ==
    /\ pc = "rollback_open"
    /\ hist.applyFail = 2
    /\ hist.last = "error"
    /\ sessions = {1}

\* The errors of the checks made on one router of the poll.
RouterErrors ==
    {"connect", "ntp", "command", "parse", "nochain", "missing", "differ", "atoi"}
\* getKeychainStatus returned the error of a check on one router.
PollAborted == hist.statusDone /\ hist.statusErr \in RouterErrors

\* C21: the poll calls the routers in the order of the configuration, each
\* after the one before it passed every check; the first router that fails
\* one is the last called, and getKeychainStatus returns an error, no slots
\* and needsRotation = false.  Without config.NTP no "show system uptime" is
\* sent and no error is about the time source; with it one is sent on every
\* session the poll opened.
C21_PollAbortsAtFirstFailure ==
    /\ IsPrefix(hist.contacted, Config.Devices)
    /\ Len(hist.polled) <= Len(hist.contacted)
    /\ Len(hist.contacted) <= Len(hist.polled) + 1
    /\ PollAborted =>
          /\ Len(hist.contacted) = Len(hist.polled) + 1
          /\ pc = "status" \/ CycleEnded
          /\ err # NoErr
          /\ usedKey = <<>>
          /\ ~needsKey
          /\ hist.ops = <<>>
    /\ (hist.statusDone /\ ~PollAborted) => hist.contacted = Config.Devices
    /\ ~Config.NTP => (hist.uptime = 0 /\ hist.statusErr # "ntp")
    /\ Config.NTP =>
          hist.uptime = Len(hist.contacted)
                          - (IF pc = "poll_open" \/ hist.statusErr = "connect"
                             THEN 1 ELSE 0)

\* NTP is not mandated; the second of three routers reports different send
\* and receive keys and the third is not called.
C21_Witness ==
    /\ ~Config.NTP
    /\ NumDevices = 3
    /\ PollAborted
    /\ hist.statusErr = "differ"
    /\ hist.contacted = <<1, 2>>
    /\ hist.uptime = 0
    /\ CycleEnded

\* C22: once the apply has failed on a router, updateKeychain returns an
\* error and never nil: the error that carries the apply failure and the
\* rollback failure when rollbackCommitted failed, and the error of the apply
\* alone when rollbackCommitted reverted every committed router.
C22_ApplyFailureReturn ==
    (hist.applyFail # 0 /\ UpdateEnded) =>
        /\ err # NoErr
        /\ hist.rollErr # NoErr => err = "config+rollback"
        /\ (hist.rollbackCalled /\ hist.rollErr = NoErr) =>
              /\ CallsOf("rollback") = hist.rollbackArg
              /\ err = "config"
        /\ pc # "updated" => lastResult # RunSuccess

\* The apply failed on the third router, the rollback of the first passed
\* and that of the second failed: the error returned carries both failures.
C22_Witness ==
    /\ pc = "updated"
    /\ hist.applyFail = 3
    /\ CallsOf("rollback") = <<1, 2>>
    /\ hist.rollErr = "rollback"
    /\ err = "config+rollback"

NoRepeat(seq) == \A i, j \in 1..Len(seq) : i # j => seq[i] # seq[j]
\* The place of the call of a pass on a router among the calls of the cycle.
CallAt(pass, router) ==
    {i \in 1..Len(hist.ops) : hist.ops[i] = <<pass, router>>}

\* C23: in one cycle no router is polled, probed, applied or reverted twice;
\* a router is reverted only after its own apply, which passed; and the
\* router whose apply failed is the last one the apply pass calls.
C23_NoRetries ==
    /\ NoRepeat(hist.contacted)
    /\ NoRepeat(CallsOf("probe"))
    /\ NoRepeat(CallsOf("apply"))
    /\ NoRepeat(CallsOf("rollback"))
    /\ \A i \in 1..Len(hist.ops) :
          hist.ops[i][1] = "rollback" =>
              /\ hist.ops[i][2] # hist.applyFail
              /\ \E j \in CallAt("apply", hist.ops[i][2]) : j < i
              /\ \E k \in 1..Len(committed) : committed[k] = hist.ops[i][2]
    /\ hist.applyFail # 0 =>
          /\ CallsOf("apply") = FirstDevices(hist.applyFail)
          /\ \A d \in (hist.applyFail + 1)..NumDevices : CallAt("apply", d) = {}

\* The apply failed on the second of three routers: the third got no apply,
\* and the first, which was committed, got one rollback.
C23_Witness ==
    /\ NumDevices = 3
    /\ UpdateEnded
    /\ hist.applyFail = 2
    /\ CallsOf("apply") = <<1, 2>>
    /\ CallsOf("rollback") = <<1>>
    /\ CallsOf("probe") = <<1, 2, 3>>
    /\ hist.contacted = <<1, 2, 3>>

\* C24: the batch handed to updateKeychain, in the first rotation of a
\* process as in a later one, has 3 * RingLen statements and each is about a
\* key id in 0..RingLen.
C24_BatchShape ==
    pc = "probe" =>
        /\ Len(configCommands) = 3 * RingLen
        /\ \A j \in 1..Len(configCommands) : configCommands[j].key \in 0..RingLen

EqualLengths(t) == Len(t.CAK) = Len(t.CKN) /\ Len(t.CKN) = Len(t.ROLL)

\* C25: between two cycles the secrets, key-names and activation times of
\* the ring are equally many, and a call of Generate that failed has left the
\* ring as it was when the cycle began; a ring that is rendered has the three
\* equally long as well.
C25_RingAligned ==
    /\ (pc = "run" \/ pc = "sleep") => EqualLengths(Template)
    /\ (CycleEnded /\ GenerationFailed) => Template = hist.ring
    /\ pc = "probe" => EqualLengths(Template)

\* C26: a getKeychainStatus that returns no error returns one slot for each
\* configured router, those the routers reported in their order; loop never
\* takes the branch of the response count, and a cycle that ended at Warning
\* ended in the error branch of Generate or of the template.
C26_OneSlotPerDevice ==
    /\ (hist.statusDone /\ hist.statusErr = NoErr) =>
          /\ Len(hist.statusIDs) = NumDevices
          /\ Len(hist.polled) = NumDevices
          /\ \A d \in 1..NumDevices : hist.statusIDs[d] = hist.polled[d].slot
    /\ err # "mismatch"
    /\ (CycleEnded /\ lastResult = RunWarning) =>
          /\ err \in {"rand", "parse", "execute"}
          /\ hist.generated

\* Three routers answered, three slots were returned, and the cycle ended at
\* Warning because the template did not execute.
C26_Witness ==
    /\ NumDevices = 3
    /\ hist.statusDone
    /\ hist.statusErr = NoErr
    /\ Len(hist.statusIDs) = 3
    /\ CycleEnded
    /\ lastResult = RunWarning
    /\ err = "execute"

BeforeApply ==
    {"poll", "poll_open", "status", "generate", "render", "probe", "probe_open"}

\* C27: committed is empty until the apply pass of a cycle begins; during
\* the pass it is the routers called so far, in the order of the
\* configuration and each once, and the call on each of them returned nil or
\* Benign; after a failed apply it is the routers before the failed one.
C27_CommittedPrefix ==
    /\ IsPrefix(committed, Config.Devices)
    /\ NoRepeat(committed)
    /\ pc \in BeforeApply => committed = <<>>
    /\ pc \in {"apply", "apply_open"} =>
          /\ committed = FirstDevices(idx - 1)
          /\ Holding = {committed[i] : i \in 1..Len(committed)}
          /\ (pc = "apply" /\ committed # <<>>) => hist.last \in {"ok", Benign}
    /\ hist.applyFail # 0 => committed = FirstDevices(hist.applyFail - 1)

\* The second rotation of a process: two routers committed, one with the
\* benign error, and the third is being called.
C27_Witness ==
    /\ cycle = 2
    /\ Len(hist.ring.CAK) = RingLen
    /\ pc = "apply_open"
    /\ idx = 3
    /\ committed = <<1, 2>>
    /\ hist.last = Benign

====
